---- MODULE Spec2Model ----
(***************************************************************************)
(* Moving Horizon Estimator of do-mpc (do_mpc/estimator.py, class MHE).    *)
(* One MHE object is modelled: its configuration attributes, its flags,    *)
(* the registered callbacks, the assembled solver and numeric buffers,     *)
(* the variable bounds, the current estimate and clock, and the recorded   *)
(* history; of a second estimator, the estimate and the clock.  Every      *)
(* public method is one action; a method that raises keeps the effects of  *)
(* the statements executed before the raise.                               *)
(***************************************************************************)
EXTENDS Integers, Sequences, FiniteSets, TLC

\* ------------------------------------------------------------------ bounds
\* largest horizon length given to set_param(n_horizon=...)
MaxN == 2
\* largest number of measurements held in the history at once
MaxSteps == 2
\* largest clock value from which make_step is still called
MaxTime == 2

\* ------------------------------------------------- absent attribute / value
\* An attribute that is not in self.__dict__ is the empty tuple, an attribute
\* that exists is the one-tuple of its value.
Absent == <<>>
Some(v) == <<v>>
Has(a) == a # <<>>
Val(a) == a[1]

Range(s) == {s[i] : i \in 1..Len(s)}

\* Python None as a returned vector
None == <<>>

\* ------------------------------------------------------------------- model
\* The process model handed to the constructor: its symbol sets.
model_x_keys == <<"x1", "x2">>
model_u_keys == <<"u1">>
model_z_keys == <<"z1">>
model_y_keys == <<"y1">>
model_p_keys == <<"a", "b">>

\* Values the solver, the caller and the plant may produce.
XVals == {<<0, 0>>, <<1, 2>>}
YVals == {0, 1}

\* list comprehension [k for k in keys if k in / not in lst], keeping order
RECURSIVE FilterKeys(_, _, _)
FilterKeys(keys, lst, keep) ==
    IF keys = <<>> THEN <<>>
    ELSE LET h == Head(keys)
             r == FilterKeys(Tail(keys), lst, keep)
         IN IF (h \in lst) = keep THEN <<h>> \o r ELSE r

\* self._p_est: the model parameters named in p_est_list, in model order
p_est_keys(lst) == FilterKeys(model_p_keys, lst, TRUE)
\* self._p_set: the model parameters not named in p_est_list, in model order
p_set_keys(lst) == FilterKeys(model_p_keys, lst, FALSE)

\* position of key k in the sequence keys (0 when absent)
RECURSIVE IndexOf(_, _)
IndexOf(keys, k) ==
    IF keys = <<>> THEN 0
    ELSE IF Head(keys) = k THEN 1
    ELSE LET i == IndexOf(Tail(keys), k) IN IF i = 0 THEN 0 ELSE i + 1

\* p_cat_fun putting the estimated parameters first and the fixed ones after
p_cat_fun_est_first(lst, pe, ps) == pe \o ps

\* self._p_cat_fun: the full parameter vector, in model order, from the
\* numeric values of the estimated and of the fixed parameters
p_cat_fun(lst, pe, ps) ==
    [i \in 1..Len(model_p_keys) |->
        LET k == model_p_keys[i]
        IN IF IndexOf(p_est_keys(lst), k) > 0
           THEN pe[IndexOf(p_est_keys(lst), k)]
           ELSE ps[IndexOf(p_set_keys(lst), k)]]

\* a structure of the given keys with every entry set to v: struct(v)
Filled(keys, v) == [i \in 1..Len(keys) |-> v]

\* ------------------------------------------------------ dictionaries, labels
\* A Python dict is the set of its <<key, value>> items.
DictKeys(d) == {kv[1] : kv \in d}
\* dict.update: the items of u replace those of d with the same key
DictUpdate(d, u) == {kv \in d : kv[1] \notin DictKeys(u)} \cup u

\* struct.labels(): one label per scalar entry, in the struct's order
labels(keys) == keys
\* labels of a struct with entry('y_meas', repeat=n, struct=model._y)
RECURSIVE y_labels(_)
y_labels(n) ==
    IF n = 0 THEN <<>>
    ELSE y_labels(n - 1) \o [i \in 1..Len(model_y_keys) |-> <<"y_meas", n - 1, model_y_keys[i]>>]

\* ------------------------------------------------------------------- state
VARIABLES
    p_est_list,       \* constructor argument: the names to estimate
    model_tvp_keys,   \* model._tvp: the model's time-varying parameters
    n_horizon,        \* 0: attribute not set
    t_step,           \* 0: attribute not set
    meas_from_data,
    nlpsol_opts,
    flags,
    tvp_fun, p_fun, y_fun,              \* "none": attribute not set
    tvp_fun_n,        \* the number of steps in the output of tvp_fun (0: no tvp_fun)
    y_template,       \* the template captured by the default y_fun
    called_at,        \* the callback calls of the latest make_step: <<name, time>>
    obj_fun, arrival_cost_fun,
    _x_lb, _x_ub, _u_lb, _u_ub, _z_lb, _z_ub, _p_est_lb, _p_est_ub,
    S,                \* the solver: Absent or Some(options it was built with)
    opt_x_num,        \* Absent or Some([x |-> last state point, p_est |-> ..])
    opt_p_num,        \* Absent or Some(solver parameter buffer)
    nlp,              \* Absent or Some(the assembled optimization problem)
    solver_stats,     \* Absent or Some(success indicator of the latest solve)
    lb_opt_x, ub_opt_x,                 \* Absent or Some(bounds of the decision variables)
    _x0, _p_est0, _t0,
    _p_est0_type,     \* what self._p_est0 is bound to: "struct" or "DM"
    data_y, data_x, data_p, data_time,  \* the history (do_mpc.data.Data)
    x0_struct,        \* the value of a state structure object the caller holds
    x0_holders,       \* the estimators whose _x0 is that object ("self", "peer")
    peer_x0, peer_p_est0, peer_t0,      \* the estimate and clock of a second estimator
    last              \* what the last call did, as its caller sees it

ctor == <<p_est_list, model_tvp_keys>>
params == <<n_horizon, t_step, meas_from_data, nlpsol_opts>>
funs == <<flags, tvp_fun, tvp_fun_n, p_fun, y_fun, y_template, called_at>>
objective == <<obj_fun, arrival_cost_fun>>
bnds == <<_x_lb, _x_ub, _u_lb, _u_ub, _z_lb, _z_ub, _p_est_lb, _p_est_ub>>
optim == <<S, opt_x_num, opt_p_num, nlp, solver_stats, lb_opt_x, ub_opt_x>>
estimate == <<_x0, _p_est0, _p_est0_type, _t0>>
data == <<data_y, data_x, data_p, data_time>>
\* the caller's structure object and a second estimator, built from the same
\* model and configuration, of which the estimate and the clock are modelled
peer == <<x0_struct, x0_holders, peer_x0, peer_p_est0, peer_t0>>
vars == <<ctor, params, funs, objective, bnds, optim, estimate, data, peer, last>>

\* What the last call did, as its caller sees it: the method, whether it raised,
\* the value it returned, and the component names an inconsistent-bounds
\* error reports.
Outcome(op, raised, ret, bound_fail) ==
    [op |-> op, raised |-> raised, ret |-> ret, bound_fail |-> bound_fail]
Returned(op, ret) == Outcome(op, FALSE, ret, <<>>)
Raised(op) == Outcome(op, TRUE, None, <<>>)

\* -inf and +inf of the default bounds
NegInf == -9
PosInf == 9
\* default scaling of every variable category
_x_scaling == 1
_u_scaling == 1
_p_est_scaling == 1

\* ------------------------------------------------------------ construction
\* p_est_list arguments tried; "c" is not a parameter of the model
PEstLists == {{}, {"a", "b"}, {"b", "c"}}

\* MHE.__init__ with the argument lst, on a model with tvp keys tvp, followed
\* by the caller's bound declarations
Constructed(lst, tvp, xl, xu, ul, uu, zl, zu, pl, pu) ==
    /\ p_est_list = lst
    /\ model_tvp_keys = tvp
    /\ n_horizon = 0
    /\ t_step = 0
    /\ meas_from_data = FALSE
    /\ nlpsol_opts = {}
    /\ flags = [setup |-> FALSE, set_tvp_fun |-> FALSE, set_p_fun |-> FALSE,
                set_y_fun |-> FALSE, set_objective |-> FALSE]
    /\ tvp_fun = "none" /\ p_fun = "none" /\ y_fun = "none"
    /\ tvp_fun_n = 0
    /\ y_template = Absent
    /\ called_at = <<>>
    /\ obj_fun = "none" /\ arrival_cost_fun = "none"
    /\ _x_lb = xl /\ _x_ub = xu
    /\ _u_lb = ul /\ _u_ub = uu
    /\ _z_lb = zl /\ _z_ub = zu
    /\ _p_est_lb = pl /\ _p_est_ub = pu
    /\ S = Absent /\ opt_x_num = Absent /\ opt_p_num = Absent
    /\ nlp = Absent /\ solver_stats = Absent
    /\ lb_opt_x = Absent /\ ub_opt_x = Absent
    /\ _x0 = Filled(model_x_keys, 0)
    /\ _p_est0 = Filled(p_est_keys(lst), 0)
    /\ _p_est0_type = "struct"
    /\ _t0 = 0
    /\ data_y = <<>> /\ data_x = <<>> /\ data_p = <<>> /\ data_time = <<>>
    /\ x0_struct = Filled(model_x_keys, 0)
    /\ x0_holders = {}
    /\ peer_x0 = Filled(model_x_keys, 0)
    /\ peer_p_est0 = Filled(p_est_keys(lst), 0)
    /\ peer_t0 = 0
    /\ last = Returned("__init__", None)

\* every estimator starts with the default bounds -inf / +inf
Init ==
    \E lst \in PEstLists :
        Constructed(lst, <<>>,
                    Filled(model_x_keys, NegInf), Filled(model_x_keys, PosInf),
                    Filled(model_u_keys, NegInf), Filled(model_u_keys, PosInf),
                    Filled(model_z_keys, NegInf), Filled(model_z_keys, PosInf),
                    Filled(p_est_keys(lst), NegInf), Filled(p_est_keys(lst), PosInf))

\* --------------------------------------------------------------- set_param
\* solver options a caller passes: one key that is also a default, one that is not
CallerOpts == {<<"ipopt.linear_solver", "MA27">>, <<"ipopt.print_level", "0">>}

\* Keyword arguments: each key is absent or present with a value; "bogus" is a
\* key that is not in data_fields.
Kwargs(n, t, mfd, opts, bogus) ==
    [n_horizon |-> n, t_step |-> t, meas_from_data |-> mfd, nlpsol_opts |-> opts,
     bogus |-> bogus]

\* setattr(self, key, value) for a key of data_fields that was passed
SetAttr(old, arg) == IF Has(arg) THEN Val(arg) ELSE old

\* set_param(**kwargs) for one of the given keyword dictionaries
set_param_of(choices) ==
    \E kwargs \in choices :
        IF flags.setup
        THEN /\ last' = Raised("set_param")
             /\ UNCHANGED <<ctor, peer, params, funs, objective, bnds, optim, estimate, data>>
        ELSE /\ n_horizon' = SetAttr(n_horizon, kwargs.n_horizon)
             /\ t_step' = SetAttr(t_step, kwargs.t_step)
             /\ meas_from_data' = SetAttr(meas_from_data, kwargs.meas_from_data)
             /\ nlpsol_opts' = SetAttr(nlpsol_opts, kwargs.nlpsol_opts)
             /\ last' = Returned("set_param", None)
             /\ UNCHANGED <<ctor, peer, funs, objective, bnds, optim, estimate, data>>

\* ----------------------------------------------------------- set_objective
\* A cost expression: which one it is, whether it has shape (1,1), and whether
\* its symbols are all among the permitted ones.
Cost(id, scalar, allowed) == [id |-> id, scalar |-> scalar, allowed |-> allowed]

\* set_objective(obj, arrival_cost) for one of the given pairs of expressions
set_objective_of(pairs) ==
    \E pair \in pairs :
        LET obj == pair[1]
            arrival_cost == pair[2]
        IN IF ~obj.scalar \/ ~arrival_cost.scalar \/ flags.setup \/ ~obj.allowed
           THEN /\ last' = Raised("set_objective")
                /\ UNCHANGED <<ctor, peer, params, funs, objective, bnds, optim, estimate, data>>
           ELSE IF ~arrival_cost.allowed
           THEN \* obj_fun has been compiled when the arrival cost is rejected
                /\ obj_fun' = obj.id
                /\ last' = Raised("set_objective")
                /\ UNCHANGED <<ctor, peer, params, funs, arrival_cost_fun, bnds, optim,
                               estimate, data>>
           ELSE /\ obj_fun' = obj.id
                /\ arrival_cost_fun' = arrival_cost.id
                /\ flags' = [flags EXCEPT !.set_objective = TRUE]
                /\ last' = Returned("set_objective", None)
                /\ UNCHANGED <<ctor, peer, params, tvp_fun, tvp_fun_n, p_fun, y_fun,
                               y_template,
                               called_at, bnds,
                               optim, estimate, data>>

\* ------------------------------------------------------ callback registry
\* p_template_labels built from all parameters of the model
p_template_labels_all(lst) == labels(model_p_keys)

\* get_p_template().labels()
p_template_labels(lst) == labels(p_set_keys(lst))
\* get_tvp_template().labels(): the tvp trajectory over the horizon
tvp_template_labels(tvp, n) == [k \in 1..(n * Len(tvp)) |-> <<"_tvp", k>>]

\* value of every entry that the caller's callback named id returns (any time)
FunValue(id) == IF id = "f" THEN 1 ELSE 2

\* set_p_fun(p_fun) for a callback named id whose output has the labels out_labels
set_p_fun_of(ids, label_choices) ==
    \E id \in ids, out_labels \in label_choices :
        IF p_template_labels(p_est_list) # out_labels
        THEN /\ last' = Raised("set_p_fun")
             /\ UNCHANGED <<ctor, peer, params, funs, objective, bnds, optim, estimate, data>>
        ELSE /\ p_fun' = id
             /\ flags' = [flags EXCEPT !.set_p_fun = TRUE]
             /\ last' = Returned("set_p_fun", None)
             /\ UNCHANGED <<ctor, peer, params, tvp_fun, tvp_fun_n, y_fun, y_template,
                            called_at,
                            objective, bnds,
                            optim, estimate, data>>

\* set_y_fun(y_fun) for a callback named id that returns out_n measurements
set_y_fun_of(ids, lengths) ==
    \E id \in ids, out_n \in lengths :
        IF n_horizon = 0 \/ y_labels(n_horizon) # y_labels(out_n)
        THEN \* get_y_template reads self.n_horizon; the labels must agree
             /\ last' = Raised("set_y_fun")
             /\ UNCHANGED <<ctor, peer, params, funs, objective, bnds, optim, estimate, data>>
        ELSE /\ y_fun' = id
             /\ flags' = [flags EXCEPT !.set_y_fun = TRUE]
             /\ last' = Returned("set_y_fun", None)
             /\ UNCHANGED <<ctor, peer, params, tvp_fun, tvp_fun_n, p_fun, y_template, called_at,
                            objective, bnds,
                            optim, estimate, data>>

\* Optimizer.set_tvp_fun for a callback named id that returns out_n steps
set_tvp_fun_of(ids, lengths) ==
    \E id \in ids, out_n \in lengths :
        IF n_horizon = 0 \/ tvp_template_labels(model_tvp_keys, n_horizon)
                                # tvp_template_labels(model_tvp_keys, out_n)
        THEN /\ last' = Raised("set_tvp_fun")
             /\ UNCHANGED <<ctor, peer, params, funs, objective, bnds, optim, estimate, data>>
        ELSE /\ tvp_fun' = id
             /\ tvp_fun_n' = out_n
             /\ flags' = [flags EXCEPT !.set_tvp_fun = TRUE]
             /\ last' = Returned("set_tvp_fun", None)
             /\ UNCHANGED <<ctor, peer, params, p_fun, y_fun, y_template, called_at,
                            objective, bnds, optim, estimate, data>>

\* ---------------------------------------------------------- check_validity
\* [label_i for i, label_i in enumerate(lb.labels()) if bound_check[i]]
RECURSIVE bound_fail(_, _, _)
bound_fail(lb, ub, keys) ==
    IF keys = <<>> THEN <<>>
    ELSE (IF Head(lb) > Head(ub) THEN <<Head(keys)>> ELSE <<>>)
         \o bound_fail(Tail(lb), Tail(ub), Tail(keys))

\* The bound pairs the loop of check_validity visits, in order, each with the
\* labels of its structure.
checked_bounds(xl, xu, ul, uu, zl, zu) ==
    << <<xl, xu, labels(model_x_keys)>>, <<ul, uu, labels(model_u_keys)>>,
       <<zl, zu, labels(model_z_keys)>> >>

\* The loop raises in the first category that has a violated component, with
\* the labels of that category; <<>> when it ends without raising.
RECURSIVE first_bound_fail(_)
first_bound_fail(cats) ==
    IF cats = <<>> THEN <<>>
    ELSE LET c == Head(cats)
             f == bound_fail(c[1], c[2], c[3])
         IN IF f # <<>> THEN f ELSE first_bound_fail(Tail(cats))

\* whether the default y_fun raises: the first write of its first loop,
\* y_template['y_meas', -n_steps], is outside the template it captured
default_y_fun_raises(tpl, d, n) ==
    LET h == Len(d)
        n_steps == IF h < n THEN h ELSE n
    IN n_steps > Len(tpl)

\* The default y_fun injected for meas_from_data, called with the history d
\* when self.n_horizon is n: it writes into the template tpl it captured at
\* its injection and returns that template.  The first loop writes the
\* n_steps most recent measurements at the end of the template; the second
\* writes data._y[-n_steps] at the positions 0 .. n - n_steps - 1, up to the
\* first position outside the template or, with an empty history, not at all
\* (IndexError swallowed); the other entries keep what they held.
default_y_fun(tpl, d, n) ==
    LET h == Len(d)
        n_steps == IF h < n THEN h ELSE n
        m == Len(tpl)
    IN [i \in 1..m |->
          IF n_steps > 0 /\ i <= n - n_steps THEN d[h - n_steps + 1]
          ELSE IF i > m - n_steps THEN d[h - m + i]
          ELSE tpl[i]]

\* y_requirement without its test of the set_y_fun flag
y_requirement_ignores_flag(set_y_fun_flag, mfd) ==
    IF mfd THEN "inject" ELSE "raise"

\* The branch the measurement requirement of check_validity takes: "inject"
\* the default callback, or "raise".
y_requirement(set_y_fun_flag, mfd) ==
    IF set_y_fun_flag = FALSE /\ mfd THEN "inject" ELSE "raise"

\* p_requirement_fails never raising
p_requirement_never_fails(set_p_fun_flag, lst) == FALSE

\* "tvp_fun must be set, if tvp are defined in model"
tvp_requirement_fails(set_tvp_fun_flag, tvp) ==
    set_tvp_fun_flag = FALSE /\ Len(tvp) > 0
\* "p_fun must be set, if p are defined in model": the size of self._p_set
p_requirement_fails(set_p_fun_flag, lst) ==
    set_p_fun_flag = FALSE /\ Len(p_set_keys(lst)) > 0

\* check_validity on the given attributes: whether it raised, the component
\* names reported, and the attributes as the call leaves them.
check_validity(fl, tvpf, pf, yf, ytpl) ==
    LET res(raised, bf, fl2, tvpf2, pf2, yf2, ytpl2) ==
            [raised |-> raised, bound_fail |-> bf, flags |-> fl2, tvp_fun |-> tvpf2,
             \* the injected tvp_fun returns the template of the current horizon
             tvp_fun_n |-> IF tvpf = "none" /\ tvpf2 # "none" THEN n_horizon ELSE tvp_fun_n,
             p_fun |-> pf2, y_fun |-> yf2, y_template |-> ytpl2]
        same(bf) == res(TRUE, bf, fl, tvpf, pf, yf, ytpl)
        bf == first_bound_fail(checked_bounds(_x_lb, _x_ub, _u_lb, _u_ub, _z_lb, _z_ub))
        \* dummy functions for tvp and p
        tvpf1 == IF tvpf = "none" THEN "default" ELSE tvpf
        fl1 == IF tvpf = "none" THEN [fl EXCEPT !.set_tvp_fun = TRUE] ELSE fl
        pf1 == IF pf = "none" THEN "default" ELSE pf
        fl2 == IF pf = "none" THEN [fl1 EXCEPT !.set_p_fun = TRUE] ELSE fl1
    IN IF fl.set_objective = FALSE THEN same(<<>>)
       ELSE IF tvp_requirement_fails(fl.set_tvp_fun, model_tvp_keys) THEN same(<<>>)
       ELSE IF p_requirement_fails(fl.set_p_fun, p_est_list) THEN same(<<>>)
       ELSE IF bf # <<>> THEN same(bf)
       ELSE IF tvpf = "none" /\ n_horizon = 0
       THEN \* get_tvp_template reads self.n_horizon, which does not exist
            same(<<>>)
       ELSE IF y_requirement(fl2.set_y_fun, meas_from_data) = "inject" /\ n_horizon # 0
       THEN \* set_y_fun(y_fun) evaluates the new callback once, at time 0
            res(FALSE, <<>>, [fl2 EXCEPT !.set_y_fun = TRUE], tvpf1, pf1, "default",
                Some(default_y_fun(Filled(y_labels(n_horizon), 0), data_y, n_horizon)))
       ELSE res(TRUE, <<>>, fl2, tvpf1, pf1, yf, ytpl)

\* check_validity() called by the caller: the same checks and injections as
\* in setup, and nothing else
call_check_validity ==
    LET cv == check_validity(flags, tvp_fun, p_fun, y_fun, y_template)
    IN /\ flags' = cv.flags
       /\ tvp_fun' = cv.tvp_fun
       /\ tvp_fun_n' = cv.tvp_fun_n
       /\ p_fun' = cv.p_fun
       /\ y_fun' = cv.y_fun
       /\ y_template' = cv.y_template
       /\ last' = IF cv.raised
                  THEN Outcome("check_validity", TRUE, None, cv.bound_fail)
                  ELSE Returned("check_validity", None)
       /\ UNCHANGED <<ctor, peer, params, called_at, objective, bnds, optim, estimate, data>>

\* ------------------------------------------------------------------- setup
\* the default solver options of _setup_mhe_optim_problem
DefaultOpts == {<<"expand", "False">>, <<"ipopt.linear_solver", "mumps">>}

\* The options nlpsol('S', 'ipopt', nlp, ...) is called with, given the local
\* default dict and the caller's self.nlpsol_opts.
solver_opts(defaults, caller) == caller

\* v * scaling and v / scaling, entry by entry
Unscale(v, sc) == [i \in 1..Len(v) |-> v[i] * sc]
Scale(v, sc) == [i \in 1..Len(v) |-> v[i] \div sc]

\* opt_p(0): the zero parameter buffer
zero_opt_p(lst, tvp, n) ==
    [_x_prev |-> Filled(model_x_keys, 0),
     _p_prev |-> Filled(p_est_keys(lst), 0),
     _p_set |-> Filled(p_set_keys(lst), 0),
     _tvp |-> Filled(tvp_template_labels(tvp, n), 0),
     _y_meas |-> Filled(y_labels(n), 0)]

\* set_initial_guess: the decision-variable buffer seeded from the estimate
initial_guess(x, pe) ==
    [x |-> Scale(x, _x_scaling), p_est |-> Scale(pe, _p_est_scaling)]

\* the buffer when set_initial_guess raises at its last assignment: the state
\* part is seeded, the estimated-parameter part keeps what it held
guess_without_p_est(x, old) ==
    [x |-> Scale(x, _x_scaling), p_est |-> old.p_est]

\* whether self._p_est0 has the attribute cat: the structure built by the
\* constructor has it, the matrix make_step rebinds the name to has not
has_cat(type) == type = "struct"

\* what self._p_est0 is bound to after make_step has extracted the solution
rebound_p_est0 == "DM"

\* ---------------------------------------------------------------- assembly
\* opt_x_entries with one state block per control interval (no terminal block)
opt_x_entries_no_terminal(n, n_total_coll_points, lst) ==
    << [name |-> "_x", repeat |-> <<n, 1 + n_total_coll_points>>,
        size |-> Len(model_x_keys)],
       [name |-> "_z", repeat |-> <<n, 1 + n_total_coll_points>>,
        size |-> Len(model_z_keys)],
       [name |-> "_u", repeat |-> <<n>>, size |-> Len(model_u_keys)],
       [name |-> "_p_est", repeat |-> <<>>, size |-> Len(p_est_keys(lst))] >>

\* The entries of opt_x: name, repeat counts, size of the repeated structure.
\* The 'default' entry of _p_est has shape (0,0) and adds nothing.
opt_x_entries(n, n_total_coll_points, lst) ==
    << [name |-> "_x", repeat |-> <<n + 1, 1 + n_total_coll_points>>,
        size |-> Len(model_x_keys)],
       [name |-> "_z", repeat |-> <<n, 1 + n_total_coll_points>>,
        size |-> Len(model_z_keys)],
       [name |-> "_u", repeat |-> <<n>>, size |-> Len(model_u_keys)],
       [name |-> "_p_est", repeat |-> <<>>, size |-> Len(p_est_keys(lst))] >>

\* the product of the repeat counts of one entry
RECURSIVE Product(_)
Product(r) == IF r = <<>> THEN 1 ELSE Head(r) * Product(Tail(r))

\* struct.shape[0]: the number of scalar entries of a structure
RECURSIVE struct_size(_)
struct_size(entries) ==
    IF entries = <<>> THEN 0
    ELSE Product(Head(entries).repeat) * Head(entries).size + struct_size(Tail(entries))

\* opt_x(v): the numeric decision-variable structure with every entry set to
\* v; steps are numbered from 0, the points of a step from 0 to
\* n_total_coll_points
opt_x_filled(n, n_total_coll_points, lst, v) ==
    [_x |-> [k \in 0..n |-> [c \in 0..n_total_coll_points |-> Filled(model_x_keys, v)]],
     _z |-> [k \in 0..(n - 1) |->
                [c \in 0..n_total_coll_points |-> Filled(model_z_keys, v)]],
     _u |-> [k \in 0..(n - 1) |-> Filled(model_u_keys, v)],
     _p_est |-> Filled(p_est_keys(lst), v)]

\* bounded_steps going on to the terminal step
bounded_steps_with_terminal(n) == 0..n

\* the steps visited by the loop over the control intervals: range(n_horizon)
bounded_steps(n) == 0..(n - 1)

\* lb_opt_x (with v = -inf and the declared lower bounds) or ub_opt_x (with
\* v = +inf and the declared upper bounds): opt_x(v), then the assignments of
\* the loop to ['_x', k] and ['_u', k], then the one to ['_p_est']
opt_x_bounds(n, n_total_coll_points, lst, v, xb, ub, pb) ==
    LET b == opt_x_filled(n, n_total_coll_points, lst, v)
    IN [b EXCEPT
          !._x = [k \in DOMAIN b._x |->
                    IF k \in bounded_steps(n)
                    THEN [c \in 0..n_total_coll_points |-> Scale(xb, _x_scaling)]
                    ELSE b._x[k]],
          !._u = [k \in DOMAIN b._u |->
                    IF k \in bounded_steps(n) THEN Scale(ub, _u_scaling) ELSE b._u[k]],
          !._p_est = Scale(pb, _p_est_scaling)]

\* the constraint blocks appended by the iterations k .. n-1 of the loop over
\* the control intervals
RECURSIVE loop_cons(_, _)
loop_cons(k, n) ==
    IF k >= n THEN <<>>
    ELSE << [kind |-> "collocation", k |-> k],
            [kind |-> "continuity", k |-> k, rows |-> Len(model_x_keys)],
            [kind |-> "nl_cons", k |-> k] >> \o loop_cons(k + 1, n)

\* the terms added to obj by the iterations k .. n-1
RECURSIVE loop_obj(_, _)
loop_obj(k, n) ==
    IF k >= n THEN <<>> ELSE << <<"obj_fun", k>> >> \o loop_obj(k + 1, n)

\* _setup_mhe_optim_problem: the optimization problem handed to nlpsol
_setup_mhe_optim_problem(n, n_total_coll_points, lst) ==
    [n_total_coll_points |-> n_total_coll_points,
     n_opt_x |-> struct_size(opt_x_entries(n, n_total_coll_points, lst)),
     obj |-> << <<"arrival_cost", 0>> >> \o loop_obj(0, n),
     cons |-> loop_cons(0, n)]

\* flags['setup'] after a setup call that got to check_validity: the
\* assignment follows check_validity and _setup_mhe_optim_problem, so a call
\* that raised in them has not reached it
setup_flag(raised, old) == IF raised THEN old ELSE TRUE

\* setup(), _setup_discretization returning one of the given numbers of
\* intermediate points.  The nonlinear-constraint structures setup builds
\* first come from the Optimizer base and are not part of this model.
setup_of(coll_points) ==
  \E n_total_coll_points \in coll_points :
    IF n_horizon = 0 \/ t_step = 0
    THEN \* meta_data reads every attribute named in data_fields
         /\ last' = Raised("setup")
         /\ UNCHANGED <<ctor, peer, params, funs, objective, bnds, optim, estimate, data>>
    ELSE LET cv == check_validity(flags, tvp_fun, p_fun, y_fun, y_template)
         IN /\ tvp_fun' = cv.tvp_fun
            /\ tvp_fun_n' = cv.tvp_fun_n
            /\ p_fun' = cv.p_fun
            /\ y_fun' = cv.y_fun
            /\ y_template' = cv.y_template
            /\ IF cv.raised
               THEN /\ flags' = [cv.flags EXCEPT !.setup = setup_flag(TRUE, cv.flags.setup)]
                    /\ last' = Outcome("setup", TRUE, None, cv.bound_fail)
                    /\ UNCHANGED optim
               ELSE \* _setup_mhe_optim_problem, set_initial_guess, prepare_data
                    /\ S' = Some(solver_opts(DefaultOpts, nlpsol_opts))
                    /\ opt_x_num' = Some(initial_guess(_x0, _p_est0))
                    /\ opt_p_num' = Some(zero_opt_p(p_est_list, model_tvp_keys, n_horizon))
                    /\ nlp' = Some(_setup_mhe_optim_problem(n_horizon, n_total_coll_points,
                                                            p_est_list))
                    /\ lb_opt_x' = Some(opt_x_bounds(n_horizon, n_total_coll_points,
                                                      p_est_list, NegInf,
                                                      _x_lb, _u_lb, _p_est_lb))
                    /\ ub_opt_x' = Some(opt_x_bounds(n_horizon, n_total_coll_points,
                                                      p_est_list, PosInf,
                                                      _x_ub, _u_ub, _p_est_ub))
                    /\ UNCHANGED solver_stats
                    /\ flags' = [cv.flags EXCEPT !.setup = setup_flag(FALSE, cv.flags.setup)]
                    /\ last' = Returned("setup", None)
            /\ UNCHANGED <<ctor, peer, params, called_at, objective, bnds, estimate, data>>

\* setup() of a discrete-time model: no intermediate points
setup == setup_of({0})

\* set_initial_guess() called by the caller: before setup the assertion fails;
\* after it the decision-variable buffer is seeded again from the current
\* estimate, and once make_step has rebound self._p_est0 the last of the four
\* assignments raises (AttributeError)
set_initial_guess ==
    IF ~flags.setup
    THEN /\ last' = Raised("set_initial_guess")
         /\ UNCHANGED <<ctor, peer, params, funs, objective, bnds, optim, estimate, data>>
    ELSE IF ~has_cat(_p_est0_type)
    THEN \* self._p_est0.cat does not exist; '_x', '_u' and '_z' were assigned
         /\ opt_x_num' = Some(guess_without_p_est(_x0, Val(opt_x_num)))
         /\ last' = Raised("set_initial_guess")
         /\ UNCHANGED <<ctor, peer, params, funs, objective, bnds, S, opt_p_num, nlp,
                        solver_stats, lb_opt_x, ub_opt_x, estimate, data>>
    ELSE /\ opt_x_num' = Some(initial_guess(_x0, _p_est0))
         /\ last' = Returned("set_initial_guess", None)
         /\ UNCHANGED <<ctor, peer, params, funs, objective, bnds, S, opt_p_num, nlp,
                        solver_stats, lb_opt_x, ub_opt_x, estimate, data>>

\* --------------------------------------------------------------- make_step
\* the solver's solution <<x, v>>: the last state point is x and every
\* estimated parameter is v
solution(lst, xv) == [x |-> xv[1], p_est |-> Filled(p_est_keys(lst), xv[2])]

\* what p_fun / tvp_fun / y_fun named id return for a structure of these keys;
\* the injected dummy functions return the zero template
fun_output(id, keys) == Filled(keys, IF id = "default" THEN 0 ELSE FunValue(id))

\* the assignments to self.opt_p_num
fill_opt_p_num(x0, p_est0, p_set0, tvp0, y_traj) ==
    [_x_prev |-> x0, _p_prev |-> p_est0, _p_set |-> p_set0, _tvp |-> tvp0,
     _y_meas |-> y_traj]

\* the state and the estimated parameters that go into the step record, given
\* those held before the call (x0, p_est0) and those extracted from the solution
recorded_x(x0, x_next) == x0
recorded_p_est(p_est0, p_est_next) == p_est0

\* stored_x without the update: the state held before the call is kept
stored_x_stale(x0, x_next) == x0

\* the estimate stored by "Update initial"; self._p_est0 was already rebound to
\* the extracted value when the solution was read
stored_x(x0, x_next) == x_next
stored_p_est(p_est0, p_est_next) == p_est_next

\* the first statement of make_step: the history after data.update(_y = y0)
updated_y(d, y0) == Append(d, y0)

\* the callback calls make_step makes at the time t0, in order, up to the
\* first callback attribute that does not exist
fun_calls(tvpf, pf, yf, t0) ==
    IF tvpf = "none" THEN <<>>
    ELSE IF pf = "none" THEN << <<"tvp_fun", t0>> >>
    ELSE IF yf = "none" THEN << <<"tvp_fun", t0>>, <<"p_fun", t0>> >>
    ELSE << <<"tvp_fun", t0>>, <<"p_fun", t0>>, <<"y_fun", t0>> >>

\* updated_t0 advancing by two steps
updated_t0_twice(t0, dt) == t0 + dt + dt

\* the clock after "Update initial": self._t0 + self.t_step
updated_t0(t0, dt) == t0 + dt

\* goes_on_after_solve raising on a solve that did not converge
goes_on_if_converged(success) == success

\* whether make_step goes on after self.solve() returned with the given
\* success indicator: the indicator is not looked at
goes_on_after_solve(success) == TRUE

\* self._x0.master = x_next writes to the object self._x0 is bound to: the
\* value seen through another reference to it is v when every estimator of
\* `through` is bound to the caller's structure, and stays old otherwise
written_through(holders, through, v, old) ==
    IF through \subseteq holders THEN v ELSE old

\* self.solve() returning the solution sol with the success indicator success:
\* the decision-variable buffer holds the solution, the statistics the indicator
solve(sol, success) == [opt_x_num |-> Some(sol), solver_stats |-> Some(success)]

\* struct[name] = lst for a repeated entry: the steps are written one by one
\* from the list, the entries beyond the list keep what they held
assigned(old, lst) ==
    [i \in 1..Len(old) |-> IF i <= Len(lst) THEN lst[i] ELSE old[i]]

\* whether that assignment raises (IndexError): the list has fewer steps than
\* the entry
list_too_short(steps, n) == steps < n

\* the number of steps of the repeated entries of self.opt_p_num: the horizon
\* it was assembled with
opt_p_steps(opt_p) == Len(opt_p._y_meas) \div Len(model_y_keys)

\* make_step(y0) for a measurement of ys, the solver returning one of sols with
\* a success indicator of successes
make_step_of(ys, sols, successes) ==
    /\ Len(data_y) < MaxSteps
    /\ _t0 < MaxTime
    /\ \E y0 \in ys, xv \in sols, success \in successes :
        LET sol == solution(p_est_list, xv)
            dy == updated_y(data_y, y0)
            ytpl == IF y_fun = "default"
                    THEN Some(default_y_fun(Val(y_template), dy, n_horizon))
                    ELSE y_template
            \* the caller's y_fun returns the steps it was registered with; it
            \* is used below only after a completed setup, after which it was
            \* registered, with the horizon that can no longer change
            y_traj == IF y_fun = "default" THEN Val(ytpl)
                      ELSE fun_output(y_fun, y_labels(n_horizon))
            \* tvp_fun returns the number of steps it was registered with
            tvp0 == fun_output(tvp_fun, tvp_template_labels(model_tvp_keys, tvp_fun_n))
            p_set0 == fun_output(p_fun, p_set_keys(p_est_list))
            old == Val(opt_p_num)
            x_next == Unscale(sol.x, _x_scaling)
            p_est_next == Unscale(sol.p_est, _p_est_scaling)
            p0 == p_cat_fun(p_est_list, recorded_p_est(_p_est0, p_est_next), p_set0)
        IN /\ data_y' = dy
           /\ called_at' = fun_calls(tvp_fun, p_fun, y_fun, _t0)
           /\ IF tvp_fun = "none" \/ p_fun = "none" \/ y_fun = "none"
              THEN \* self.tvp_fun / self.p_fun / self.y_fun does not exist
                   /\ last' = Raised("make_step")
                   /\ UNCHANGED <<ctor, peer, params, flags, tvp_fun, tvp_fun_n, p_fun, y_fun,
                                  y_template, objective, bnds, optim, estimate,
                                  data_x, data_p, data_time>>
              ELSE IF y_fun = "default"
                      /\ default_y_fun_raises(Val(y_template), dy, n_horizon)
              THEN \* the default y_fun raises before it has written anything
                   /\ last' = Raised("make_step")
                   /\ UNCHANGED <<ctor, peer, params, flags, tvp_fun, tvp_fun_n, p_fun, y_fun,
                                  y_template, objective, bnds, optim, estimate,
                                  data_x, data_p, data_time>>
              ELSE IF ~Has(opt_p_num)
              THEN \* self.opt_p_num does not exist; the callbacks have run
                   /\ y_template' = ytpl
                   /\ last' = Raised("make_step")
                   /\ UNCHANGED <<ctor, peer, params, flags, tvp_fun, tvp_fun_n, p_fun, y_fun,
                                  objective, bnds, optim, estimate, data_x, data_p,
                                  data_time>>
              ELSE IF list_too_short(tvp_fun_n, opt_p_steps(old))
              THEN \* opt_p_num['_tvp'] = tvp0['_tvp'] raises; _x_prev, _p_prev and
                   \* _p_set have been assigned
                   /\ y_template' = ytpl
                   /\ opt_p_num' = Some(fill_opt_p_num(_x0, _p_est0, p_set0,
                                                       assigned(old._tvp, tvp0),
                                                       old._y_meas))
                   /\ last' = Raised("make_step")
                   /\ UNCHANGED <<ctor, peer, params, flags, tvp_fun, tvp_fun_n, p_fun, y_fun,
                                  objective, bnds, S, opt_x_num, nlp, solver_stats,
                                  lb_opt_x, ub_opt_x, estimate, data_x, data_p, data_time>>
              ELSE IF list_too_short(Len(y_traj) \div Len(model_y_keys), opt_p_steps(old))
              THEN \* opt_p_num['_y_meas'] = y_traj['y_meas'] raises
                   /\ y_template' = ytpl
                   /\ opt_p_num' = Some(fill_opt_p_num(_x0, _p_est0, p_set0,
                                                       assigned(old._tvp, tvp0),
                                                       assigned(old._y_meas, y_traj)))
                   /\ last' = Raised("make_step")
                   /\ UNCHANGED <<ctor, peer, params, flags, tvp_fun, tvp_fun_n, p_fun, y_fun,
                                  objective, bnds, S, opt_x_num, nlp, solver_stats,
                                  lb_opt_x, ub_opt_x, estimate, data_x, data_p, data_time>>
              ELSE IF ~goes_on_after_solve(success)
              THEN \* the parameter buffer is filled and the solver has run
                   /\ y_template' = ytpl
                   /\ opt_p_num' = Some(fill_opt_p_num(_x0, _p_est0, p_set0,
                                                       assigned(old._tvp, tvp0),
                                                       assigned(old._y_meas, y_traj)))
                   /\ opt_x_num' = solve(sol, success).opt_x_num
                   /\ solver_stats' = solve(sol, success).solver_stats
                   /\ last' = Raised("make_step")
                   /\ UNCHANGED <<ctor, peer, params, flags, tvp_fun, tvp_fun_n, p_fun, y_fun,
                                  objective, bnds, S, nlp, lb_opt_x, ub_opt_x, estimate,
                                  data_x, data_p, data_time>>
              ELSE /\ y_template' = ytpl
                   /\ opt_p_num' = Some(fill_opt_p_num(_x0, _p_est0, p_set0,
                                                       assigned(old._tvp, tvp0),
                                                       assigned(old._y_meas, y_traj)))
                   /\ opt_x_num' = solve(sol, success).opt_x_num
                   /\ solver_stats' = solve(sol, success).solver_stats
                   /\ data_x' = Append(data_x, recorded_x(_x0, x_next))
                   /\ data_p' = Append(data_p, p0)
                   /\ data_time' = Append(data_time, _t0)
                   /\ _t0' = updated_t0(_t0, t_step)
                   /\ _x0' = stored_x(_x0, x_next)
                   /\ _p_est0' = stored_p_est(_p_est0, p_est_next)
                   /\ _p_est0_type' = rebound_p_est0
                   /\ last' = Returned("make_step", x_next)
                   /\ x0_struct' = written_through(x0_holders, {"self"},
                                                   stored_x(_x0, x_next), x0_struct)
                   /\ peer_x0' = written_through(x0_holders, {"self", "peer"},
                                                 stored_x(_x0, x_next), peer_x0)
                   /\ UNCHANGED <<x0_holders, peer_p_est0, peer_t0>>
                   /\ UNCHANGED <<ctor, params, flags, tvp_fun, tvp_fun_n, p_fun, y_fun,
                                  objective, bnds, S, nlp, lb_opt_x, ub_opt_x>>

\* ------------------------------------------------- initial state, history
\* data.init_storage(): what every recorded trajectory of the history holds
\* afterwards
init_storage == <<>>

\* reset_history also putting the clock back to 0
reset_history_and_clock ==
    /\ data_y' = init_storage /\ data_x' = init_storage
    /\ data_p' = init_storage /\ data_time' = init_storage
    /\ _t0' = 0
    /\ last' = Returned("reset_history", None)
    /\ UNCHANGED <<ctor, peer, params, funs, objective, bnds, optim, _x0, _p_est0,
                   _p_est0_type>>

\* reset_history(): data.init_storage() empties every recorded trajectory
reset_history ==
    /\ data_y' = init_storage /\ data_x' = init_storage
    /\ data_p' = init_storage /\ data_time' = init_storage
    /\ last' = Returned("reset_history", None)
    /\ UNCHANGED <<ctor, peer, params, funs, objective, bnds, optim, estimate>>

\* set_initial_state(x0, reset_history) for an array x0 of xs: self._x0 is a
\* new structure made from the array
set_initial_state_of(xs, resets) ==
    \E x0 \in xs, reset \in resets :
        /\ _x0' = x0
        /\ x0_holders' = x0_holders \ {"self"}
        /\ IF reset
           THEN /\ data_y' = init_storage /\ data_x' = init_storage
                /\ data_p' = init_storage /\ data_time' = init_storage
           ELSE UNCHANGED data
        /\ last' = Returned("set_initial_state", None)
        /\ UNCHANGED <<ctor, params, funs, objective, bnds, optim, _p_est0, _p_est0_type,
                       _t0,
                       x0_struct, peer_x0, peer_p_est0, peer_t0>>

\* set_initial_state(x0, reset_history) for x0 the caller's structure object:
\* self._x0 is bound to that object
set_initial_state_struct_of(resets) ==
    \E reset \in resets :
        /\ _x0' = x0_struct
        /\ x0_holders' = x0_holders \cup {"self"}
        /\ IF reset
           THEN /\ data_y' = init_storage /\ data_x' = init_storage
                /\ data_p' = init_storage /\ data_time' = init_storage
           ELSE UNCHANGED data
        /\ last' = Returned("set_initial_state", None)
        /\ UNCHANGED <<ctor, params, funs, objective, bnds, optim, _p_est0, _p_est0_type,
                       _t0,
                       x0_struct, peer_x0, peer_p_est0, peer_t0>>

\* ------------------------------------------------------- second estimator
\* set_initial_state of the second estimator, with an array of xs
peer_set_initial_state_of(xs) ==
    \E x0 \in xs :
        /\ peer_x0' = x0
        /\ x0_holders' = x0_holders \ {"peer"}
        /\ UNCHANGED <<ctor, params, funs, objective, bnds, optim, estimate, data,
                       x0_struct, peer_p_est0, peer_t0, last>>

\* set_initial_state of the second estimator, with the caller's structure object
peer_set_initial_state_struct ==
    /\ peer_x0' = x0_struct
    /\ x0_holders' = x0_holders \cup {"peer"}
    /\ UNCHANGED <<ctor, params, funs, objective, bnds, optim, estimate, data,
                   x0_struct, peer_p_est0, peer_t0, last>>

\* make_step of the second estimator, set up like this one, its solver
\* returning one of sols: "Update initial" on its own attributes
peer_make_step_of(sols) ==
    /\ flags.setup
    /\ peer_t0 < MaxTime
    /\ \E xv \in sols :
        LET sol == solution(p_est_list, xv)
            x_next == Unscale(sol.x, _x_scaling)
            p_est_next == Unscale(sol.p_est, _p_est_scaling)
        IN /\ peer_t0' = updated_t0(peer_t0, t_step)
           /\ peer_x0' = stored_x(peer_x0, x_next)
           /\ peer_p_est0' = stored_p_est(peer_p_est0, p_est_next)
           /\ x0_struct' = written_through(x0_holders, {"peer"},
                                           stored_x(peer_x0, x_next), x0_struct)
           /\ _x0' = written_through(x0_holders, {"self", "peer"},
                                     stored_x(peer_x0, x_next), _x0)
           /\ UNCHANGED <<ctor, params, funs, objective, bnds, optim, _p_est0, _p_est0_type,
                       _t0,
                          data, x0_holders, last>>

\* ----------------------------------------------------------- specification
\* The registration life cycle: every registration call with matching and
\* mismatching arguments, setup, and make_step before and after it.
LifeKwargs ==
    {Kwargs(Some(n), Some(1), Absent, Absent, Absent) : n \in 1..MaxN}
    \cup {Kwargs(Absent, Absent, Some(b), Absent, Absent) : b \in BOOLEAN}
    \cup {Kwargs(Absent, Absent, Absent, Some(CallerOpts), Some(1))}
LifeCosts ==
    {<<Cost("J1", TRUE, TRUE), Cost("J1", TRUE, TRUE)>>,
     <<Cost("J1", FALSE, TRUE), Cost("J1", TRUE, TRUE)>>}
LifePLabels == {<<>>, <<"a">>, <<"a", "b">>, <<"b", "a">>}

\* set_param without its assertion on flags['setup']
set_param_unguarded ==
    \E kwargs \in LifeKwargs :
        /\ n_horizon' = SetAttr(n_horizon, kwargs.n_horizon)
        /\ t_step' = SetAttr(t_step, kwargs.t_step)
        /\ meas_from_data' = SetAttr(meas_from_data, kwargs.meas_from_data)
        /\ nlpsol_opts' = SetAttr(nlpsol_opts, kwargs.nlpsol_opts)
        /\ last' = Returned("set_param", None)
        /\ UNCHANGED <<ctor, peer, funs, objective, bnds, optim, estimate, data>>

set_param == set_param_of(LifeKwargs)
set_objective == set_objective_of(LifeCosts)
set_p_fun == set_p_fun_of({"f", "g"}, LifePLabels)
set_y_fun == set_y_fun_of({"f"}, 1..MaxN)
make_step == make_step_of({1}, {<<(<<1, 2>>), 1>>}, {TRUE})

Next ==
    \/ set_param
    \/ set_objective
    \/ set_p_fun
    \/ set_y_fun
    \/ call_check_validity
    \/ setup
    \/ make_step

Spec == Init /\ [][Next]_vars

\* Stepping: a complete configuration with the default measurement callback,
\* then make_step with every measurement and solution, set_initial_state and
\* reset_history in any order.
StepKwargs == {Kwargs(Some(n), Some(t), Some(TRUE), Absent, Absent) : n \in 1..MaxN, t \in {1, 2}}
StepCosts == {<<Cost("J1", TRUE, TRUE), Cost("J2", TRUE, TRUE)>>}
StepSolutions == XVals \X {0, 1}

step_set_param == set_param_of(StepKwargs)
step_set_objective == set_objective_of(StepCosts)
step_set_p_fun == set_p_fun_of({"f"}, LifePLabels)
step_make_step == make_step_of(YVals, StepSolutions, {TRUE})
set_initial_state == set_initial_state_of(XVals, BOOLEAN)

NextSteps ==
    \/ step_set_param
    \/ step_set_objective
    \/ step_set_p_fun
    \/ setup
    \/ set_initial_guess
    \/ step_make_step
    \/ set_initial_state
    \/ reset_history

SpecSteps == Init /\ [][NextSteps]_vars

\* Bounds: estimators whose callers declared bounds with lower <= upper or
\* lower > upper in any component of any category, then configuration and setup.
LowerChoices(keys) == [1..Len(keys) -> {0, 2}]
UpperChoice(keys) == Filled(keys, 1)

InitBounds ==
    \E lst \in {{"a", "b"}} :
      \E xl \in LowerChoices(model_x_keys), ul \in LowerChoices(model_u_keys),
         zl \in LowerChoices(model_z_keys), pl \in LowerChoices(p_est_keys(lst)) :
        Constructed(lst, <<>>, xl, UpperChoice(model_x_keys), ul, UpperChoice(model_u_keys),
                    zl, UpperChoice(model_z_keys), pl, UpperChoice(p_est_keys(lst)))

BoundKwargs ==
    {Kwargs(Some(n), Some(1), Absent, Absent, Absent) : n \in 1..MaxN}
    \cup {Kwargs(Absent, Absent, Some(b), Absent, Absent) : b \in BOOLEAN}

bound_set_param == set_param_of(BoundKwargs)
bound_make_step == make_step_of({1}, {<<(<<1, 2>>), 1>>}, {TRUE})

NextBounds ==
    \/ bound_set_param
    \/ step_set_objective
    \/ setup
    \/ bound_make_step

SpecBounds == InitBounds /\ [][NextBounds]_vars

\* Models: estimators for models with and without time-varying parameters,
\* with every partition of the parameters and with consistent or inconsistent
\* state bounds; registration, assembly with every number of intermediate
\* discretization points, and stepping.
ModelTvps == {<<>>, <<"tv1">>}
ModelPEstLists == {{}, {"b"}, {"a", "b"}}
\* largest number of intermediate points _setup_discretization returns
MaxColl == 2

InitModels ==
    \E lst \in ModelPEstLists, tvp \in ModelTvps, xl \in LowerChoices(model_x_keys) :
        Constructed(lst, tvp, xl, UpperChoice(model_x_keys),
                    Filled(model_u_keys, NegInf), Filled(model_u_keys, PosInf),
                    Filled(model_z_keys, NegInf), Filled(model_z_keys, PosInf),
                    Filled(p_est_keys(lst), NegInf), Filled(p_est_keys(lst), PosInf))

set_tvp_fun == set_tvp_fun_of({"f"}, 1..MaxN)
assembling_setup == setup_of(0..MaxColl)
model_make_step == make_step_of({1}, {<<(<<1, 2>>), 1>>}, {TRUE})

NextModels ==
    \/ step_set_param
    \/ step_set_objective
    \/ set_tvp_fun
    \/ step_set_p_fun
    \/ call_check_validity
    \/ assembling_setup
    \/ model_make_step

SpecModels == InitModels /\ [][NextModels]_vars

\* Two estimators: this one and a second one built from the same model and
\* configuration; the caller sets their initial states from arrays or from
\* one structure object, and steps them in any order.
InitPeers ==
    Constructed({"a", "b"}, <<>>,
                Filled(model_x_keys, NegInf), Filled(model_x_keys, PosInf),
                Filled(model_u_keys, NegInf), Filled(model_u_keys, PosInf),
                Filled(model_z_keys, NegInf), Filled(model_z_keys, PosInf),
                Filled(model_p_keys, NegInf), Filled(model_p_keys, PosInf))
PeerSolutions == XVals \X {1}

peers_make_step == make_step_of({1}, PeerSolutions, {TRUE})
set_initial_state_struct == set_initial_state_struct_of({FALSE})
peer_set_initial_state == peer_set_initial_state_of(XVals)
peer_make_step == peer_make_step_of(PeerSolutions)

NextPeers ==
    \/ step_set_param
    \/ step_set_objective
    \/ setup
    \/ set_initial_state
    \/ set_initial_state_struct
    \/ peers_make_step
    \/ peer_set_initial_state
    \/ peer_set_initial_state_struct
    \/ peer_make_step

SpecPeers == InitPeers /\ [][NextPeers]_vars

\* Solver outcomes: a configured estimator stepping with every solution, each
\* reported as converged or as not converged.
solve_make_step == make_step_of({1}, StepSolutions, BOOLEAN)

NextSolver ==
    \/ step_set_param
    \/ step_set_objective
    \/ step_set_p_fun
    \/ setup
    \/ solve_make_step

SpecSolver == Init /\ [][NextSolver]_vars

\* Declared bounds: estimators whose callers declared bounds in every
\* category, assembled with every number of intermediate points, and stepping.
NextDeclared ==
    \/ bound_set_param
    \/ step_set_objective
    \/ assembling_setup
    \/ bound_make_step

SpecDeclared == InitBounds /\ [][NextDeclared]_vars

\* Objective registration: calls with two pairs of cost expressions, (L1, A1)
\* and (L2, A2), each cost scalar or not and with or without a disallowed
\* symbol; then setup.
ObjectivePairs == {<<"L1", "A1">>, <<"L2", "A2">>}
ObjectiveCosts ==
    {<<Cost(pair[1], s1, a1), Cost(pair[2], s2, a2)>> :
        pair \in ObjectivePairs, s1 \in BOOLEAN, a1 \in BOOLEAN,
        s2 \in BOOLEAN, a2 \in BOOLEAN}

cost_set_objective == set_objective_of(ObjectiveCosts)

NextObjective ==
    \/ step_set_param
    \/ cost_set_objective
    \/ setup

SpecObjective == Init /\ [][NextObjective]_vars

\* ------------------------------------------------------------------ claims
\* the callback requirements of check_validity other than the measurement one
OtherRequirementsMet ==
    /\ n_horizon # 0 /\ t_step # 0
    /\ flags.set_objective
    /\ flags.set_tvp_fun \/ Len(model_tvp_keys) = 0
    /\ flags.set_p_fun \/ Len(p_set_keys(p_est_list)) = 0

\* lower <= upper in every component of one category
Consistent(lb, ub) == \A i \in 1..Len(lb) : lb[i] <= ub[i]
\* the component names of one category with lower > upper
Offending(lb, ub, keys) == {keys[i] : i \in {j \in 1..Len(keys) : lb[j] > ub[j]}}

StateInputAlgebraicConsistent ==
    Consistent(_x_lb, _x_ub) /\ Consistent(_u_lb, _u_ub) /\ Consistent(_z_lb, _z_ub)
AllBoundsConsistent ==
    StateInputAlgebraicConsistent /\ Consistent(_p_est_lb, _p_est_ub)

\* C1: with the objective registered, the bounds consistent and the tvp/p
\* requirements met, setup passes the measurement requirement exactly when a
\* measurement callback is registered or meas_from_data is true, and a
\* registered callback is kept.
C1_MeasurementRequirement ==
    [][(setup /\ ~flags.setup /\ OtherRequirementsMet /\ AllBoundsConsistent)
         => /\ flags'.setup <=> (flags.set_y_fun \/ meas_from_data)
            /\ flags.set_y_fun => y_fun' = y_fun]_vars

\* C2: the step record appended by a successful make_step holds the newly
\* estimated state (the value returned) and recombine(newly estimated
\* parameters, current fixed parameters).
C2_StepRecordHoldsNewEstimate ==
    (last.op = "make_step" /\ ~last.raised)
        => /\ data_x[Len(data_x)] = last.ret
           /\ data_p[Len(data_p)] = p_cat_fun(p_est_list, _p_est0, Val(opt_p_num)._p_set)

\* C3: make_step before setup has completed raises and has no effect: no
\* measurement appended, no callback result stored, no solve, clock and
\* estimates unchanged.
C3_MakeStepBeforeSetupHasNoEffect ==
    [][(make_step /\ ~flags.setup)
         => /\ last'.raised
            /\ UNCHANGED <<data, funs, optim, estimate>>]_vars

\* C4: after setup every set_p_fun / set_y_fun call fails and the stored
\* callbacks stay the ones in place when setup completed.
C4_NoRegistrationAfterSetup ==
    [][(flags.setup /\ (set_p_fun \/ set_y_fun))
         => /\ last'.raised
            /\ p_fun' = p_fun /\ y_fun' = y_fun]_vars

\* C5: once setup has completed, every further setup call fails, without
\* constructing a solver, without touching the numeric buffers, and with
\* flags['setup'] still true.
C5_SetupNonReentrant ==
    [][(flags.setup /\ setup)
         => /\ last'.raised
            /\ UNCHANGED optim
            /\ flags'.setup]_vars

\* a second setup call has been made on an estimator that was set up and has
\* stepped, and it raised
C5_Witness ==
    /\ flags.setup /\ last.op = "setup" /\ last.raised
    /\ Len(data_time) > 0

\* C6: with all mandatory registrations present, setup succeeds exactly when
\* lower <= upper holds in every component of the state, input, algebraic and
\* estimated-parameter bounds.
C6_SetupIffBoundsConsistent ==
    [][(setup /\ ~flags.setup /\ OtherRequirementsMet
            /\ (flags.set_y_fun \/ meas_from_data))
         => (flags'.setup <=> AllBoundsConsistent)]_vars

\* C7: a setup that fails on inconsistent bounds reports every component with
\* lower > upper of the state, input and algebraic bounds.
C7_EveryOffendingComponentReported ==
    (last.op = "setup" /\ last.raised /\ last.bound_fail # <<>>)
        => Range(last.bound_fail)
             = Offending(_x_lb, _x_ub, model_x_keys)
               \cup Offending(_u_lb, _u_ub, model_u_keys)
               \cup Offending(_z_lb, _z_ub, model_z_keys)

\* C8: an estimated-parameter list naming something that is not a model
\* parameter makes the constructor fail; no estimator exists for such a list.
C8_UnknownNameRejected ==
    p_est_list \subseteq Range(model_p_keys) \/ (last.op = "__init__" /\ last.raised)

\* C9: the solver is built with the default options overridden key by key by
\* the caller's nlpsol_opts.
C9_SolverOptionsMerged ==
    Has(S) => Val(S) = DictUpdate(DefaultOpts, nlpsol_opts)

\* C10: in every make_step after setup the value returned is the state
\* estimate stored by the call; _x_prev and _p_prev of the parameter buffer are
\* the state and estimated parameters extracted by the preceding call, and in
\* the first call the initial state and the initial parameter estimate.
C10_PreviousEstimateFedBack ==
    [][(step_make_step /\ flags.setup)
         => /\ last'.ret = _x0'
            /\ (last.op = "make_step" /\ ~last.raised)
                 => /\ Val(opt_p_num')._x_prev = last.ret
                    /\ Val(opt_p_num')._p_prev
                         = Unscale(Val(opt_x_num).p_est, _p_est_scaling)
            /\ _t0 = 0
                 => /\ Val(opt_p_num')._x_prev = _x0
                    /\ Val(opt_p_num')._p_prev = Filled(p_est_keys(p_est_list), 0)]_vars

\* two calls have succeeded, and the second was given a previous state and
\* previous parameters that are not the initial ones and not the new ones
C10_Witness ==
    /\ flags.setup /\ last.op = "make_step" /\ ~last.raised
    /\ Len(data_time) = 2
    /\ Val(opt_p_num)._x_prev # Filled(model_x_keys, 0)
    /\ Val(opt_p_num)._x_prev # last.ret
    /\ Len(p_est_keys(p_est_list)) > 0
    /\ Val(opt_p_num)._p_prev # Filled(p_est_keys(p_est_list), 0)
    /\ Val(opt_p_num)._p_prev # _p_est0

\* C11: after setup every make_step evaluates the tvp, p and measurement
\* callbacks at the clock value it starts with, records that time in the step
\* record and leaves the clock one t_step later; the clock starts at 0 and no
\* other operation (nor a make_step that fails) moves it, so the k-th call
\* runs at (k-1)*t_step and ends at k*t_step.
C11_ClockAdvancesOncePerStep ==
    [][IF step_make_step /\ flags.setup
       THEN /\ called_at' = << <<"tvp_fun", _t0>>, <<"p_fun", _t0>>, <<"y_fun", _t0>> >>
            /\ data_time' = Append(data_time, _t0)
            /\ _t0' = _t0 + t_step
       ELSE _t0' = _t0]_vars

\* the second make_step after setup has run with a step size of 1: callbacks
\* evaluated at 1, time 1 recorded, clock at 2
C11_Witness ==
    /\ flags.setup /\ last.op = "make_step" /\ ~last.raised
    /\ t_step = 1 /\ _t0 = 2
    /\ data_time = <<0, 1>>
    /\ called_at = << <<"tvp_fun", 1>>, <<"p_fun", 1>>, <<"y_fun", 1>> >>

\* C12: a make_step whose solve reports non-convergence does not raise: it
\* returns the extracted state, appends the step record, advances the clock
\* and overwrites the previous state / parameter fields as for a converged
\* solve.
C12_NonConvergenceNotRaised ==
    [][(solve_make_step /\ flags.setup /\ solver_stats' = Some(FALSE))
         => /\ ~last'.raised
            /\ last'.ret = Unscale(Val(opt_x_num').x, _x_scaling)
            /\ _x0' = last'.ret
            /\ _p_est0' = Unscale(Val(opt_x_num').p_est, _p_est_scaling)
            /\ Len(data_x') = Len(data_x) + 1
            /\ Len(data_p') = Len(data_p) + 1
            /\ data_time' = Append(data_time, _t0)
            /\ _t0' = _t0 + t_step
            /\ Val(opt_p_num')._x_prev = _x0
            /\ Val(opt_p_num')._p_prev = _p_est0]_vars

\* a make_step with a non-converged solve has returned a state that differs
\* from the one held before, after a converged one
C12_Witness ==
    /\ flags.setup /\ last.op = "make_step" /\ ~last.raised
    /\ solver_stats = Some(FALSE)
    /\ Len(data_time) = 2
    /\ last.ret # Val(opt_p_num)._x_prev
    /\ _x0 = last.ret

\* C13: reset_history empties the recorded trajectories and leaves the state
\* estimate, the estimated parameters, the clock, the warm-start buffer and
\* the flags unchanged; set_initial_state with reset_history=False leaves the
\* history unchanged and with reset_history=True empties it.
C13_ResetHistoryKeepsEstimate ==
    [][/\ reset_history
            => /\ data_y' = <<>> /\ data_x' = <<>> /\ data_p' = <<>> /\ data_time' = <<>>
               /\ UNCHANGED <<_x0, _p_est0, _t0, opt_x_num, flags>>
       /\ set_initial_state_of(XVals, {FALSE}) => UNCHANGED data
       /\ set_initial_state_of(XVals, {TRUE})
            => data_y' = <<>> /\ data_x' = <<>> /\ data_p' = <<>> /\ data_time' = <<>>]_vars

\* reset_history has been called after two make_step calls: the history is
\* empty, the clock and a non-initial estimate are still there
C13_Witness ==
    /\ flags.setup /\ last.op = "reset_history"
    /\ data_y = <<>> /\ data_x = <<>> /\ data_p = <<>> /\ data_time = <<>>
    /\ t_step = 1 /\ _t0 = 2
    /\ _x0 # Filled(model_x_keys, 0)
    /\ Val(opt_x_num).x = _x0

\* C14: the default measurement callback returns, for a history of h >= 1
\* measurements and horizon N, a trajectory of N entries whose last min(h, N)
\* entries are the min(h, N) most recent measurements in chronological order
\* and whose other entries all equal the oldest available measurement; on its
\* call at its injection and on every call made by make_step.  The callback
\* returns the template it writes to, and make_step calls it whenever it is
\* the registered one (tvp_fun and p_fun are registered before it).
C14_DefaultMeasurementTrajectory ==
    (/\ y_fun = "default" /\ Len(data_y) >= 1
     /\ \/ last.op = "make_step"
        \/ last.op \in {"setup", "check_validity"} /\ ~last.raised)
        => LET h == Len(data_y)
               m == IF h < n_horizon THEN h ELSE n_horizon
               traj == Val(y_template)
           IN /\ Len(traj) = n_horizon
              /\ \A j \in 1..m : traj[n_horizon - m + j] = data_y[h - m + j]
              /\ \A i \in 1..(n_horizon - m) : traj[i] = data_y[h - m + 1]

\* the labeling of the fixed-parameter template: the model parameters that
\* are not estimated, in the model's order
FixedLabeling == SelectSeq(model_p_keys, LAMBDA k : k \notin p_est_list)

\* C15: set_p_fun and set_y_fun accept a callback exactly when the labeling of
\* its output equals the labeling of the template (same keys, same order): on
\* a match the callback is stored and its flag becomes true, on a mismatch the
\* call fails, the stored callback is kept and the flags are unchanged.
C15_RegistrationIffLabelsMatch ==
    [][/\ \A id \in {"f", "g"}, out_labels \in LifePLabels :
            \/ IF out_labels = FixedLabeling
               THEN ~last'.raised /\ p_fun' = id /\ flags'.set_p_fun
               ELSE last'.raised /\ p_fun' = p_fun /\ flags' = flags
            \/ ~(last'.op = "set_p_fun" /\ set_p_fun_of({id}, {out_labels}))
       /\ \A out_n \in 1..MaxN :
            \/ IF n_horizon # 0 /\ out_n = n_horizon
               THEN ~last'.raised /\ y_fun' = "f" /\ flags'.set_y_fun
               ELSE last'.raised /\ y_fun' = y_fun /\ flags' = flags
            \/ ~(last'.op = "set_y_fun" /\ set_y_fun_of({"f"}, {out_n}))]_vars

\* a set_p_fun call with mismatching labels has failed after a callback was
\* registered, and that callback is still the stored one
C15_Witness ==
    /\ last.op = "set_p_fun" /\ last.raised
    /\ p_fun = "f" /\ flags.set_p_fun
    /\ y_fun = "f" /\ flags.set_y_fun

\* C17: after setup, set_objective and set_param fail and change nothing:
\* the compiled cost functions, the horizon, the step size and the other
\* configuration parameters keep their values.
C17_NoReconfigurationAfterSetup ==
    [][(flags.setup /\ (set_param \/ set_objective))
         => /\ last'.raised
            /\ UNCHANGED <<params, objective, flags>>]_vars

\* set_param has been called on an estimator that is set up, and has failed
C17_Witness ==
    /\ flags.setup /\ last.op = "set_param" /\ last.raised
    /\ n_horizon = 2 /\ obj_fun = "J1"

\* check_validity runs: called by the caller, or reached by a setup call
\* (meta_data has been gathered)
ValidityChecked ==
    \/ call_check_validity
    \/ assembling_setup /\ n_horizon # 0 /\ t_step # 0

\* the three failure cases of C16
C16_Failures ==
    /\ ~flags.set_objective => last'.raised
    /\ (Len(model_tvp_keys) > 0 /\ ~flags.set_tvp_fun) => last'.raised
    /\ (Len(FixedLabeling) > 0 /\ ~flags.set_p_fun) => last'.raised

\* the two injections of C16
C16_Injections ==
    /\ (Len(model_tvp_keys) = 0 /\ tvp_fun = "none")
         => /\ tvp_fun' = "default" /\ flags'.set_tvp_fun
            /\ fun_output(tvp_fun', tvp_template_labels(model_tvp_keys, n_horizon)) = <<>>
    /\ (Len(FixedLabeling) = 0 /\ p_fun = "none")
         => /\ p_fun' = "default" /\ flags'.set_p_fun
            /\ fun_output(p_fun', FixedLabeling) = <<>>

\* C16 as stated: check_validity fails when the objective is not registered,
\* when the model declares time-varying parameters and no tvp callback is
\* registered, when P_fix is non-empty and no p callback is registered; and
\* whenever the model declares no time-varying parameters (resp. P_fix is
\* empty) and no callback is registered, it injects the trivial callback and
\* the flag becomes true.
C16_ValidityRequirements ==
    [][ValidityChecked => (C16_Failures /\ C16_Injections)]_vars

\* C16 amended: the same failures; the injections take place when the call
\* gets past the objective, tvp and p requirements, the state, input and
\* algebraic bounds are consistent and the horizon length has been set (also
\* when the call then fails on the measurement requirement).
C16_InjectionsAfterEarlierChecks ==
    [][ValidityChecked
         => /\ C16_Failures
            /\ (/\ flags.set_objective
                /\ ~(Len(model_tvp_keys) > 0 /\ ~flags.set_tvp_fun)
                /\ ~(Len(FixedLabeling) > 0 /\ ~flags.set_p_fun)
                /\ StateInputAlgebraicConsistent
                /\ n_horizon # 0) => C16_Injections]_vars

\* a setup call has injected the trivial p callback for an estimator whose
\* parameters are all estimated, on a model with time-varying parameters
\* whose callback the caller registered
C16_Witness ==
    /\ last.op = "setup" /\ ~last.raised
    /\ p_fun = "default" /\ flags.set_p_fun /\ p_est_list = {"a", "b"}
    /\ Len(model_tvp_keys) > 0 /\ tvp_fun = "f"

\* the positions of the constraint blocks of one kind, and of the objective
\* terms of one kind, in the assembled problem
ConsBlocks(kind) == {i \in 1..Len(Val(nlp).cons) : Val(nlp).cons[i].kind = kind}
ObjTerms(kind) == {i \in 1..Len(Val(nlp).obj) : Val(nlp).obj[i][1] = kind}

\* N defect blocks, N continuity blocks of the state size, N stage-cost terms
\* and one arrival-cost term
C18_BlockCounts ==
    /\ Cardinality(ConsBlocks("collocation")) = n_horizon
    /\ Cardinality(ConsBlocks("continuity")) = n_horizon
    /\ \A i \in ConsBlocks("continuity") : Val(nlp).cons[i].rows = Len(model_x_keys)
    /\ Cardinality(ObjTerms("obj_fun")) = n_horizon
    /\ Cardinality(ObjTerms("arrival_cost")) = 1

\* the sizes (N+1)*(1+n_c)*n_x, N*(1+n_c)*n_z, N*n_u and n_p_est
StateBlocksSize ==
    (n_horizon + 1) * (1 + Val(nlp).n_total_coll_points) * Len(model_x_keys)
AlgebraicBlocksSize ==
    n_horizon * (1 + Val(nlp).n_total_coll_points) * Len(model_z_keys)
InputBlocksSize == n_horizon * Len(model_u_keys)
EstimatedParameterBlockSize == Cardinality(p_est_list \cap Range(model_p_keys))

\* C18 as stated: assembling with horizon N and n_c intermediate points gives N
\* defect blocks, N continuity blocks of the state size, N stage-cost terms
\* added to one arrival-cost term, and (N+1)*(1+n_c)*n_x + N*n_u + n_p_est
\* decision variables, also for a model with algebraic variables.
C18_AssemblyCounts ==
    Has(nlp)
        => /\ C18_BlockCounts
           /\ Val(nlp).n_opt_x
                = StateBlocksSize + InputBlocksSize + EstimatedParameterBlockSize

\* C18 amended: the same block counts, and (N+1)*(1+n_c)*n_x + N*(1+n_c)*n_z
\* + N*n_u + n_p_est decision variables: the algebraic variables of every
\* control interval and intermediate point are decision variables too.
C18_AssemblyCountsWithAlgebraic ==
    Has(nlp)
        => /\ C18_BlockCounts
           /\ Val(nlp).n_opt_x
                = StateBlocksSize + AlgebraicBlocksSize + InputBlocksSize
                  + EstimatedParameterBlockSize

\* a problem has been assembled for horizon 2 with 2 intermediate points and
\* one estimated parameter: 3*3*2 + 2*3*1 + 2*1 + 1 = 27 decision variables
C18_Witness ==
    /\ Has(nlp) /\ flags.setup
    /\ n_horizon = 2 /\ Val(nlp).n_total_coll_points = 2
    /\ p_est_list = {"b"}
    /\ Val(nlp).n_opt_x = 27
    /\ Len(Val(nlp).cons) = 6

\* the values of a parameter for which recombine is evaluated
PVals == {0, 1, 2}
\* the position of a parameter in the model's parameter list
Pos(k) == CHOOSE i \in 1..Len(model_p_keys) : model_p_keys[i] = k
\* a list of parameter names that keeps the model's relative order
InModelOrder(names) ==
    \A i, j \in 1..Len(names) : i < j => Pos(names[i]) < Pos(names[j])
\* full is the full parameter vector holding pe for the names est and ps for
\* the names fix, each at the position of its name in the model's list
Recombined(full, est, pe, fix, ps) ==
    /\ DOMAIN full = 1..Len(model_p_keys)
    /\ \A j \in 1..Len(est) : full[Pos(est[j])] = pe[j]
    /\ \A j \in 1..Len(fix) : full[Pos(fix[j])] = ps[j]

\* parameter lists of other models, for the partition alone
ParamLists ==
    {<<>>, <<"a">>, <<"a", "b">>, <<"b", "a">>, <<"a", "b", "c">>, <<"c", "a", "b">>}
\* sub is made of entries of keys, in the order they have in keys
OrderedSublist(sub, keys) ==
    \E pos \in [1..Len(sub) -> 1..Len(keys)] :
        /\ \A j \in 1..Len(sub) : keys[pos[j]] = sub[j]
        /\ \A i, j \in 1..Len(sub) : i < j => pos[i] < pos[j]
\* the comprehensions of the constructor split keys into the names of lst and
\* the others, disjoint, covering, each in the order of keys
Partitioned(keys, lst) ==
    LET est == FilterKeys(keys, lst, TRUE)
        fix == FilterKeys(keys, lst, FALSE)
    IN /\ Range(est) = lst /\ Range(fix) = Range(keys) \ lst
       /\ Len(est) + Len(fix) = Len(keys)
       /\ OrderedSublist(est, keys) /\ OrderedSublist(fix, keys)

\* C19: for an estimated-name list drawn from the model's parameters, the
\* estimated and the fixed subset are disjoint, cover all model parameters and
\* keep the model's relative order, and recombine(p_est, p_fix) is the full
\* parameter vector in the model's order holding every supplied value, for
\* all values of p_est and p_fix, and so for the values make_step recombines.
C19_PartitionAndRecombine ==
    /\ \A keys \in ParamLists : \A lst \in SUBSET Range(keys) : Partitioned(keys, lst)
    /\ p_est_list \subseteq Range(model_p_keys)
        => LET est == p_est_keys(p_est_list)
               fix == p_set_keys(p_est_list)
           IN /\ Range(est) \cap Range(fix) = {}
              /\ Range(est) \cup Range(fix) = Range(model_p_keys)
              /\ Range(est) = p_est_list
              /\ Len(est) + Len(fix) = Len(model_p_keys)
              /\ InModelOrder(est) /\ InModelOrder(fix)
              /\ \A pe \in [1..Len(est) -> PVals], ps \in [1..Len(fix) -> PVals] :
                    Recombined(p_cat_fun(p_est_list, pe, ps), est, pe, fix, ps)
              /\ (last.op = "make_step" /\ ~last.raised)
                    => Recombined(data_p[Len(data_p)], est, Val(opt_p_num)._p_prev,
                                  fix, Val(opt_p_num)._p_set)

\* make_step has recombined one estimated parameter (b, value 0) and one
\* fixed parameter (a, value 1) into the full vector in the model's order
C19_Witness ==
    /\ last.op = "make_step" /\ ~last.raised
    /\ p_est_list = {"b"} /\ p_fun = "f"
    /\ Val(opt_p_num)._p_prev = <<0>> /\ Val(opt_p_num)._p_set = <<1>>
    /\ data_p[Len(data_p)] = <<1, 0>>

\* C20: of two estimators built from the same model and configuration and
\* given the same initial state, also as one and the same structure object,
\* no operation on one changes the state estimate, the parameter estimate, the
\* clock or the numeric buffers of the other, in any interleaving of their
\* calls (so that equal measurements give equal estimate sequences).
C20_InstancesIndependent ==
    [][/\ (\/ step_set_param \/ step_set_objective \/ setup
           \/ set_initial_state \/ set_initial_state_struct \/ peers_make_step)
            => UNCHANGED <<peer_x0, peer_p_est0, peer_t0>>
       /\ (peer_set_initial_state \/ peer_set_initial_state_struct \/ peer_make_step)
            => UNCHANGED <<_x0, _p_est0, _t0, opt_x_num, opt_p_num>>]_vars

\* what C21 says of an estimator whose setup flag is true: the objective, p
\* and measurement flags are true, the p and measurement callbacks exist, the
\* solver and the numeric buffers have been created
SetupFlagImplies ==
    flags.setup
        => /\ flags.set_objective /\ flags.set_p_fun /\ flags.set_y_fun
           /\ p_fun # "none" /\ y_fun # "none"
           /\ Has(S) /\ Has(opt_x_num) /\ Has(opt_p_num)

\* a setup call that raises in check_validity: meta_data has been gathered
RaisesInCheckValidity == setup /\ n_horizon # 0 /\ t_step # 0 /\ last'.raised

\* C21 as stated: in every reachable state flags['setup'] true implies the
\* objective, p and measurement flags, the p and measurement callbacks, the
\* solver and the buffers opt_x_num / opt_p_num; a setup call that raises in
\* check_validity leaves flags['setup'] false and performs no assembly.
C21_SetupFlagMeansAssembled ==
    /\ []SetupFlagImplies
    /\ [][RaisesInCheckValidity => (~flags'.setup /\ UNCHANGED optim)]_vars

\* C22: set_objective is atomic: a call that fails (a cost that is not scalar,
\* or a disallowed symbol in either cost) changes nothing, so the objective
\* flag and the compiled stage-cost and arrival-cost functions stay as they
\* were, and the stored pair of functions always comes from one single
\* successful call.
C22_SetObjectiveAtomic ==
    /\ [][(cost_set_objective /\ last'.raised)
            => UNCHANGED <<obj_fun, arrival_cost_fun, flags>>]_vars
    /\ [](flags.set_objective => <<obj_fun, arrival_cost_fun>> \in ObjectivePairs)

\* C23: after setup the bounds handed to the solver are the declared bounds
\* divided by the scaling on the state blocks and the input blocks of every
\* step k in 0..N-1 and on the estimated-parameter block; the state block of
\* step N and all algebraic-variable blocks keep -infinity / +infinity
\* whatever bounds were declared.
C23_SolverBounds ==
    flags.setup
        => LET lb == Val(lb_opt_x)
               ub == Val(ub_opt_x)
               points == 0..Val(nlp).n_total_coll_points
           IN /\ DOMAIN lb._x = 0..n_horizon /\ DOMAIN ub._x = 0..n_horizon
              /\ DOMAIN lb._z = 0..(n_horizon - 1) /\ DOMAIN ub._z = 0..(n_horizon - 1)
              /\ DOMAIN lb._u = 0..(n_horizon - 1) /\ DOMAIN ub._u = 0..(n_horizon - 1)
              /\ \A k \in 0..(n_horizon - 1) :
                    /\ \A c \in points :
                          /\ lb._x[k][c] = [i \in 1..Len(_x_lb) |-> _x_lb[i] \div _x_scaling]
                          /\ ub._x[k][c] = [i \in 1..Len(_x_ub) |-> _x_ub[i] \div _x_scaling]
                          /\ lb._z[k][c] = [i \in 1..Len(model_z_keys) |-> NegInf]
                          /\ ub._z[k][c] = [i \in 1..Len(model_z_keys) |-> PosInf]
                    /\ lb._u[k] = [i \in 1..Len(_u_lb) |-> _u_lb[i] \div _u_scaling]
                    /\ ub._u[k] = [i \in 1..Len(_u_ub) |-> _u_ub[i] \div _u_scaling]
              /\ lb._p_est = [i \in 1..Len(_p_est_lb) |-> _p_est_lb[i] \div _p_est_scaling]
              /\ ub._p_est = [i \in 1..Len(_p_est_ub) |-> _p_est_ub[i] \div _p_est_scaling]
              /\ \A c \in points :
                    /\ lb._x[n_horizon][c] = [i \in 1..Len(model_x_keys) |-> NegInf]
                    /\ ub._x[n_horizon][c] = [i \in 1..Len(model_x_keys) |-> PosInf]

\* an estimator with declared state, input, algebraic and parameter bounds
\* has been set up with horizon 2 and 2 intermediate points and has stepped:
\* the declared bounds are on the state blocks of steps 0 and 1, the state
\* block of step 2 and the algebraic blocks are unbounded
C23_Witness ==
    /\ flags.setup /\ last.op = "make_step" /\ ~last.raised
    /\ n_horizon = 2 /\ Val(nlp).n_total_coll_points = 2
    /\ _x_lb = <<0, 0>> /\ _z_lb = <<0>> /\ _z_ub = <<1>> /\ _p_est_lb = <<2, 0>>
    /\ Val(lb_opt_x)._x[1][2] = <<0, 0>> /\ Val(ub_opt_x)._x[0][0] = <<1, 1>>
    /\ Val(lb_opt_x)._x[2][2] = <<NegInf, NegInf>>
    /\ Val(lb_opt_x)._z[1][0] = <<NegInf>> /\ Val(ub_opt_x)._z[0][2] = <<PosInf>>
    /\ Val(lb_opt_x)._p_est = <<2, 0>>

====
